---- MODULE Spec2Model ----
(***************************************************************************)
(* sbom-utility: the validate command (cmd/validate.go), the resource list *)
(* command with its three report formatters, and the custom JSON           *)
(* marshalers of the CycloneDX license types (schema/cyclonedx_marshal.go).*)
(*                                                                         *)
(* Three specifications share the variables:                               *)
(*   Spec          the validate command, validateCmdImpl + Validate        *)
(*   SpecResource  the resource command, resourceCmdImpl + ListResources   *)
(*   SpecMarshal   the MarshalJSON methods, applied to bounded inputs      *)
(* Strings whose bytes matter (names, JSON keys, JSON values) are          *)
(* sequences of byte values; an io.Writer is the sequence of rows written. *)
(***************************************************************************)
EXTENDS Integers, Sequences, FiniteSets, TLC

VARIABLES
    pc,            \* position of the running command
    flags,         \* utils.GlobalFlags: the persistent and the validate flags
    outputFile,    \* the *os.File of createOutputFile: "nil", "open", "closed"
    exitCode,      \* "none" while running, then the process's exit outcome
    valid,         \* Validate's named result `valid`
    err,           \* the named result `err` of Validate / ListResources
    schemaErrors,  \* Validate's named result `schemaErrors`
    document,      \* Validate's named result `document`: what the load produced
    schemaLoader,  \* which loader Validate built: "nil", "forced", "embedded"
    embeddedRead,  \* resources.SBOMSchemaFiles.ReadFile was called
    attempts,      \* number of gojsonschema.NewSchema calls made
    jsonSbomSchema, \* the compiled schema: "nil" until a NewSchema call succeeds
    evaluated,     \* jsonSbomSchema.Validate was called
    result,        \* result.Errors() of the evaluation
    customRan,     \* validateCustom was called
    output,        \* what was written to the io.Writer, in order
    log,           \* the `document ...: valid=[..]` Info messages, in order
    entries,       \* bom.ResourceMap.Entries(), in map order
    displayErr,    \* what the report formatter called by ListResources returned
    choice,        \* the CDXLicenseChoice value under test
    attachment,    \* the CDXAttachment value under test
    marshaled,     \* the (bytes, err) a MarshalJSON returned
    parsed         \* the CDXAttachment parsed back from bytes

vars == <<pc, flags, outputFile, exitCode, valid, err, schemaErrors, document,
          schemaLoader, embeddedRead, attempts, jsonSbomSchema, evaluated, result, customRan,
          output, log, entries, displayErr, choice, attachment, marshaled,
          parsed>>

cmdVars == <<pc, flags, outputFile, exitCode, valid, err, schemaErrors, document,
             schemaLoader, embeddedRead, attempts, jsonSbomSchema, evaluated, result, customRan,
             output, log>>

resourceVars == <<entries, displayErr>>

marshalVars == <<choice, attachment, marshaled, parsed>>

(***************************************************************************)
(* Bounds                                                                  *)
(***************************************************************************)
MaxViolations == 2
MaxEntries == 3
MaxStrLen == 2

(***************************************************************************)
(* Program constants                                                       *)
(***************************************************************************)
VALID == TRUE
INVALID == FALSE
RETRY == 3

FORMAT_TEXT == "txt"
FORMAT_JSON == "json"
FORMAT_CSV == "csv"
FORMAT_MARKDOWN == "md"
FORMAT_OTHER == "xml"

ERROR_APPLICATION == "ERROR_APPLICATION"
ERROR_VALIDATION == "ERROR_VALIDATION"
EXIT_OK == "0"

\* error values, by concrete type
NoError == "nil"
SyntaxError == "*json.SyntaxError"
UnmarshalTypeError == "*json.UnmarshalTypeError"
FileError == "*fs.PathError"
UnsupportedFormatError == "*schema.UnsupportedFormatError"
SchemaReadError == "embedded schema read error"
SchemaLoadError == "unable to load schema"
ValidatorError == "validator error"
InvalidSBOMError == "*InvalidSBOMError"
CustomRuleError == "custom validation error"

IsInvalidSBOMError(e) == e = InvalidSBOMError

\* detected document formats
CycloneDX == "CycloneDX"
SPDX == "SPDX"

NoDocument == [loaded |-> "no", format |-> "none"]

IsCycloneDx(doc) == doc.format = CycloneDX

(***************************************************************************)
(* The validate command                                                    *)
(***************************************************************************)
ValidateFlagSets ==
    [CustomValidation : BOOLEAN,
     ForcedJsonSchemaFile : {"", "forced.schema.json"},
     OutputFormat : {"", FORMAT_TEXT, FORMAT_JSON, FORMAT_CSV, FORMAT_OTHER},
     OutputFile : {"", "out.txt"}]

\* The zero values CDXAttachment{}, CDXLicense{} and CDXLicenseChoice{}; the
\* empty string is the empty byte sequence.
ZeroAttachment == [ContentType |-> <<>>, Encoding |-> <<>>, Content |-> <<>>]

ZeroLicense == [Id |-> <<>>, Name |-> <<>>, Url |-> <<>>, Text |-> ZeroAttachment]

ZeroLicenseChoice == [License |-> ZeroLicense, Expression |-> <<>>]

IdleMarshal ==
    /\ choice = ZeroLicenseChoice
    /\ attachment = ZeroAttachment
    /\ marshaled = [bytes |-> <<>>, err |-> NoError]
    /\ parsed = ZeroAttachment

IdleResource ==
    /\ entries = <<>>
    /\ displayErr = "not called"

InitCommand ==
    /\ outputFile = "nil"
    /\ exitCode = "none"
    /\ valid = FALSE
    /\ err = NoError
    /\ schemaErrors = <<>>
    /\ document = NoDocument
    /\ schemaLoader = "nil"
    /\ embeddedRead = FALSE
    /\ attempts = 0
    /\ jsonSbomSchema = "nil"
    /\ evaluated = FALSE
    /\ result = <<>>
    /\ customRan = FALSE
    /\ output = <<>>
    /\ log = <<>>

Init ==
    /\ pc = "cmd_start"
    /\ flags \in ValidateFlagSets
    /\ InitCommand
    /\ IdleResource
    /\ IdleMarshal

\* validateCmdImpl: createOutputFile and the exit on its failure.  An empty
\* --output-file leaves outputFile nil and the writer on standard output.
CreateOutputFile ==
    /\ pc = "cmd_start"
    /\ \E ok \in BOOLEAN :
         IF ok
         THEN /\ outputFile' = IF flags.OutputFile # "" THEN "open" ELSE "nil"
              /\ pc' = "v_load"
              /\ exitCode' = exitCode
         ELSE /\ flags.OutputFile # ""
              /\ outputFile' = "nil"
              /\ pc' = "exited"
              /\ exitCode' = ERROR_APPLICATION
    /\ UNCHANGED <<flags, valid, err, schemaErrors, document, schemaLoader,
                   embeddedRead, attempts, jsonSbomSchema, evaluated, result, customRan, output,
                   log, resourceVars, marshalVars>>

\* The `return v, document, schemaErrors, e` statements of Validate: the named
\* results are set and control passes to the deferred closure.
Return(v, e) ==
    /\ valid' = v
    /\ err' = e
    /\ pc' = "v_deferred"

\* Validate: `if err != nil` after LoadInputSbomFileAndDetectSchema.
LoadFailedOnlyOnFileError(outcome) == outcome = FileError

LoadFailed(outcome) == outcome # "ok"

\* Validate: LoadInputSbomFileAndDetectSchema and the return on its error.
LoadDocument ==
    /\ pc = "v_load"
    /\ \E outcome \in {"ok", SyntaxError, UnmarshalTypeError, FileError} :
         IF LoadFailed(outcome)
         THEN /\ document' = [loaded |-> outcome, format |-> "none"]
              /\ Return(INVALID, outcome)
         ELSE /\ \E f \in {CycloneDX, SPDX} :
                   document' = [loaded |-> outcome, format |-> f]
              /\ pc' = "v_custom_check"
              /\ UNCHANGED <<valid, err>>
    /\ UNCHANGED <<flags, outputFile, exitCode, schemaErrors, schemaLoader,
                   embeddedRead, attempts, jsonSbomSchema, evaluated, result, customRan, output,
                   log, resourceVars, marshalVars>>

\* Validate: `validateFlags.CustomValidation && !document.FormatInfo.IsCycloneDx()`
CustomUnsupportedNever(custom, doc) == FALSE

CustomUnsupported(custom, doc) == custom /\ ~IsCycloneDx(doc)

\* Validate: the --custom flag needs a CycloneDX document.
CheckCustomPrecondition ==
    /\ pc = "v_custom_check"
    /\ IF CustomUnsupported(flags.CustomValidation, document)
       THEN Return(valid, UnsupportedFormatError)
       ELSE /\ pc' = "v_resolve"
            /\ UNCHANGED <<valid, err>>
    /\ UNCHANGED <<flags, outputFile, exitCode, schemaErrors, document,
                   schemaLoader, embeddedRead, attempts, jsonSbomSchema, evaluated, result,
                   customRan, output, log, resourceVars, marshalVars>>

\* Validate: `if forcedSchemaFile != ""`
IsForcedNever(forcedSchemaFile) == FALSE

IsForced(forcedSchemaFile) == forcedSchemaFile # ""

\* Validate: build the schema loader, from the forced file or from the embedded
\* schema of the document's SchemaInfo.  Both gojsonschema loader constructors
\* return a loader, so the `schemaLoader == nil` return is never taken.
ResolveSchema ==
    /\ pc = "v_resolve"
    /\ IF IsForced(flags.ForcedJsonSchemaFile)
       THEN /\ schemaLoader' = "forced"
            /\ pc' = "v_compile"
            /\ UNCHANGED <<valid, err, embeddedRead>>
       ELSE /\ embeddedRead' = TRUE
            /\ \E readOk \in BOOLEAN :
                 IF readOk
                 THEN /\ schemaLoader' = "embedded"
                      /\ pc' = "v_compile"
                      /\ UNCHANGED <<valid, err>>
                 ELSE /\ schemaLoader' = schemaLoader
                      /\ Return(INVALID, SchemaReadError)
    /\ UNCHANGED <<flags, outputFile, exitCode, schemaErrors, document,
                   attempts, jsonSbomSchema, evaluated, result, customRan, output, log,
                   resourceVars, marshalVars>>

\* Validate: the loop condition `i < RETRY`.
LoopConditionOneMore(i) == i <= RETRY

LoopCondition(i) == i < RETRY

\* Validate: one pass of the `for i := 0; i < RETRY; i++` loop around
\* gojsonschema.NewSchema (i = attempts), with the loop's exits: break on
\* success, and the errLoad return once the loop condition fails.
CompileSchema ==
    /\ pc = "v_compile"
    /\ LoopCondition(attempts)
    /\ attempts' = attempts + 1
    /\ \E errLoad \in BOOLEAN :
         IF ~errLoad
         THEN /\ jsonSbomSchema' = "compiled"
              /\ pc' = "v_evaluate"
              /\ UNCHANGED <<valid, err>>
         ELSE /\ jsonSbomSchema' = "nil"
              /\ IF LoopCondition(attempts + 1)
                 THEN UNCHANGED <<pc, valid, err>>
                 ELSE Return(INVALID, SchemaLoadError)
    /\ UNCHANGED <<flags, outputFile, exitCode, schemaErrors, document,
                   schemaLoader, embeddedRead, evaluated, result, customRan,
                   output, log, resourceVars, marshalVars>>

\* result.Valid() of gojsonschema: no errors recorded.
ResultValid(res) == Len(res) = 0

\* Validate: jsonSbomSchema.Validate(documentLoader), `valid = result.Valid()`
\* and the return on errValidate.  A run that ends in errValidate reports no
\* violations.
Evaluate ==
    /\ pc = "v_evaluate"
    /\ evaluated' = TRUE
    /\ \E errValidate \in BOOLEAN, n \in 0..MaxViolations :
         IF errValidate
         THEN /\ n = 0
              /\ result' = <<>>
              /\ Return(INVALID, ValidatorError)
         ELSE /\ result' = [k \in 1..n |-> k]
              /\ valid' = ResultValid(result')
              /\ pc' = "v_report"
              /\ err' = err
    /\ UNCHANGED <<flags, outputFile, exitCode, schemaErrors, document,
                   schemaLoader, embeddedRead, attempts, jsonSbomSchema, customRan, output, log,
                   resourceVars, marshalVars>>

\* The format FormatSchemaErrors is called with: json, csv and txt as given,
\* anything else as txt.
ReportFormat(format) ==
    IF format \in {FORMAT_JSON, FORMAT_CSV, FORMAT_TEXT} THEN format ELSE FORMAT_TEXT

\* Validate: `len(schemaErrors) > 0`.
HasViolationsMoreThanOne(errors) == Len(errors) > 1

HasViolations(errors) == Len(errors) > 0

\* Validate: `schemaErrors = result.Errors()`; with violations, write the
\* report and return the InvalidSBOMError; without, go on to custom validation
\* or to the final return.
Report ==
    /\ pc = "v_report"
    /\ schemaErrors' = result
    /\ IF HasViolations(result)
       THEN /\ output' = Append(output, [kind |-> "schemaErrors",
                                         format |-> ReportFormat(flags.OutputFormat),
                                         errors |-> result])
            /\ Return(INVALID, InvalidSBOMError)
       ELSE /\ output' = output
            /\ IF flags.CustomValidation
               THEN /\ pc' = "v_custom"
                    /\ UNCHANGED <<valid, err>>
               ELSE Return(valid, err)
    /\ UNCHANGED <<flags, outputFile, exitCode, document, schemaLoader,
                   embeddedRead, attempts, jsonSbomSchema, evaluated, result, customRan, log,
                   resourceVars, marshalVars>>

\* validateCustom: the error it returns for each outcome of the unmarshal and
\* of validateCustomCDXDocument.  An unmarshal error is returned as it is; a
\* rule error is wrapped unless it already is an InvalidSBOMError.
ValidateCustomError(outcome) ==
    CASE outcome = "ok" -> NoError
      [] outcome = "unmarshal" -> UnmarshalTypeError
      [] outcome = "rule" ->
           IF ~IsInvalidSBOMError(CustomRuleError) THEN InvalidSBOMError
                                                   ELSE CustomRuleError
      [] outcome = "invalid" -> InvalidSBOMError

\* validateCustom: the validity it returns next to its error: INVALID with an
\* error, VALID with none.
ValidateCustomValidAlways(e) == VALID

ValidateCustomValid(e) == IF e # NoError THEN INVALID ELSE VALID

\* Validate: `valid, err = validateCustom(document)` and the final return.
CustomValidation ==
    /\ pc = "v_custom"
    /\ customRan' = TRUE
    /\ \E outcome \in {"ok", "unmarshal", "rule", "invalid"} :
         LET e == ValidateCustomError(outcome)
         IN  Return(ValidateCustomValid(e), e)
    /\ UNCHANGED <<flags, outputFile, exitCode, schemaErrors, document,
                   schemaLoader, embeddedRead, attempts, jsonSbomSchema, evaluated, result,
                   output, log, resourceVars, marshalVars>>

\* validationError: the messages it logs.  Its last statement logs the
\* `document ...: valid=[..]` Info message.
ValidationErrorLog(l, v, e) == Append(l, [valid |-> v, error |-> e])

\* Validate's deferred closure: validationError is called when err is not nil.
DeferredLog(l, v, e) == IF e # NoError THEN ValidationErrorLog(l, v, e) ELSE l

ValidateDeferred ==
    /\ pc = "v_deferred"
    /\ log' = DeferredLog(log, valid, err)
    /\ pc' = "cmd_result"
    /\ UNCHANGED <<flags, outputFile, exitCode, valid, err, schemaErrors,
                   document, schemaLoader, embeddedRead, attempts, jsonSbomSchema, evaluated,
                   result, customRan, output, resourceVars, marshalVars>>

\* validateCmdImpl: the exit outcome for Validate's (valid, err).
ExitOutcomeAnyErrorInvalid(v, e) ==
    IF e # NoError \/ ~v THEN ERROR_VALIDATION ELSE EXIT_OK

ExitOutcome(v, e) ==
    IF e # NoError
    THEN IF IsInvalidSBOMError(e) THEN ERROR_VALIDATION ELSE ERROR_APPLICATION
    ELSE IF ~v THEN ERROR_VALIDATION ELSE EXIT_OK

\* The deferred closure of validateCmdImpl / resourceCmdImpl: close the file.
CloseOutputFile(f) == IF f # "nil" THEN "closed" ELSE f

\* validateCmdImpl after Validate: os.Exit ends the process on the spot, and
\* the deferred closure runs only on `return nil`.
CommandExit ==
    /\ pc = "cmd_result"
    /\ exitCode' = ExitOutcome(valid, err)
    /\ outputFile' = IF exitCode' = EXIT_OK THEN CloseOutputFile(outputFile)
                                            ELSE outputFile
    /\ pc' = "exited"
    /\ UNCHANGED <<flags, valid, err, schemaErrors, document, schemaLoader,
                   embeddedRead, attempts, jsonSbomSchema, evaluated, result, customRan, output,
                   log, resourceVars, marshalVars>>

Next ==
    \/ CreateOutputFile
    \/ LoadDocument
    \/ CheckCustomPrecondition
    \/ ResolveSchema
    \/ CompileSchema
    \/ Evaluate
    \/ Report
    \/ CustomValidation
    \/ ValidateDeferred
    \/ CommandExit

Spec == Init /\ [][Next]_vars

(***************************************************************************)
(* Properties of the validate command (checked under Spec)                 *)
(***************************************************************************)
\* Validate has returned to validateCmdImpl.
ValidateReturned == pc \in {"cmd_result", "exited"} /\ document.loaded # "no"

\* C1: when Validate reached schema evaluation and the validator reported at
\* least one violation, Validate returns valid = false, schemaErrors = those
\* violations (non-empty) and an InvalidSBOMError, and validateCustom was not
\* called.
C1_ViolationsReturnInvalidSBOMError ==
    (ValidateReturned /\ evaluated /\ Len(result) > 0) =>
        /\ valid = FALSE
        /\ Len(schemaErrors) > 0
        /\ schemaErrors = result
        /\ IsInvalidSBOMError(err)
        /\ ~customRan

C1_Witness ==
    /\ ValidateReturned
    /\ evaluated
    /\ Len(result) = 1
    /\ flags.CustomValidation
    /\ IsInvalidSBOMError(err)

\* C2: when the load fails with a JSON syntax or type error, no schema is
\* resolved, compiled or evaluated, and Validate returns valid = false, the
\* parse error itself as err, and an empty schemaErrors.
C2_ParseErrorReturnedAsIs ==
    document.loaded \in {SyntaxError, UnmarshalTypeError} =>
        /\ schemaLoader = "nil"
        /\ ~embeddedRead
        /\ attempts = 0
        /\ ~evaluated
        /\ output = <<>>
        /\ ValidateReturned =>
              /\ valid = FALSE
              /\ err = document.loaded
              /\ ~IsInvalidSBOMError(err)
              /\ schemaErrors = <<>>

C2_Witness ==
    /\ ValidateReturned
    /\ document.loaded = SyntaxError
    /\ err = SyntaxError

\* C3: once the validate command has exited after Validate returned, the exit
\* outcome is 0 exactly when valid = true and err = nil, ERROR_VALIDATION
\* exactly when err is an InvalidSBOMError or err = nil with valid = false,
\* and ERROR_APPLICATION exactly for every other non-nil err.
C3_ExitOutcomeSeparatesFailureClasses ==
    (pc = "exited" /\ ValidateReturned) =>
        /\ exitCode \in {EXIT_OK, ERROR_VALIDATION, ERROR_APPLICATION}
        /\ exitCode = EXIT_OK <=> (valid = TRUE /\ err = NoError)
        /\ exitCode = ERROR_VALIDATION <=>
              (IsInvalidSBOMError(err) \/ (err = NoError /\ valid = FALSE))
        /\ exitCode = ERROR_APPLICATION <=>
              (err # NoError /\ ~IsInvalidSBOMError(err))
        /\ err \in {SyntaxError, UnmarshalTypeError, FileError, SchemaReadError,
                     SchemaLoadError, ValidatorError, UnsupportedFormatError}
              => exitCode = ERROR_APPLICATION

C3_Witness ==
    /\ pc = "exited"
    /\ ValidateReturned
    /\ err = ValidatorError
    /\ exitCode = ERROR_APPLICATION

\* C4: every run of Validate, valid or invalid, with or without an error,
\* has logged the `valid=[..]` message exactly once when it returns, with the
\* validity it returns.
C4_ValidityMessageAlwaysLogged ==
    ValidateReturned => (Len(log) = 1 /\ log[1].valid = valid)

\* C10 (validate command): when the process has exited and the output file
\* had been opened, the file has been closed.
C10_OutputFileClosedBeforeExit ==
    (pc = "exited" /\ outputFile # "nil") => outputFile = "closed"

\* The validate command as it runs: the process takes its next step as long
\* as it has one (every call it makes returns).
SpecFair == Spec /\ WF_vars(Next)

\* Validate has passed the compile loop, one way or the other.
CompileLoopLeft == pc = "v_evaluate" \/ evaluated \/ err = SchemaLoadError

C11_CompileSafety ==
    /\ attempts \in 0..RETRY
    /\ CompileLoopLeft => attempts >= 1
    /\ pc = "v_compile" => (attempts < RETRY /\ jsonSbomSchema = "nil")
    /\ evaluated => jsonSbomSchema = "compiled"
    /\ (attempts = RETRY /\ jsonSbomSchema = "nil") => err = SchemaLoadError
    /\ err = SchemaLoadError =>
         /\ attempts = RETRY
         /\ jsonSbomSchema = "nil"
         /\ valid = FALSE
         /\ schemaErrors = <<>>
         /\ ~evaluated

\* C11: schema compilation is attempted at least once and at most RETRY = 3
\* times; after a successful attempt no further attempt is made; the document
\* is evaluated only with a compiled schema; when all 3 attempts fail Validate
\* returns valid = false, a non-nil error and empty schemaErrors without
\* evaluating; and the loop is always left.
C11_BoundedCompileRetry ==
    /\ []C11_CompileSafety
    /\ [][jsonSbomSchema = "compiled" => attempts' = attempts]_vars
    /\ [][attempts' # attempts => (attempts' = attempts + 1 /\ pc = "v_compile")]_vars
    /\ (pc = "v_compile") ~> (pc # "v_compile")

C11_Witness ==
    /\ ValidateReturned
    /\ attempts = RETRY
    /\ jsonSbomSchema = "nil"
    /\ err = SchemaLoadError
    /\ valid = FALSE

\* Validate is past the building of the schema loader.
SchemaResolved == pc \in {"v_compile", "v_evaluate", "v_report", "v_custom"} \/ attempts > 0

\* C12: with a forced schema file the loader is built from that path and the
\* embedded schema is never read, so no run ends in an embedded-schema read
\* error; without one the embedded schema is read, and a read failure returns
\* valid = false with that error before any compile or evaluation.
C12_ForcedSchemaTakesPrecedence ==
    /\ flags.ForcedJsonSchemaFile # "" =>
         /\ ~embeddedRead
         /\ err # SchemaReadError
         /\ SchemaResolved => schemaLoader = "forced"
    /\ flags.ForcedJsonSchemaFile = "" =>
         /\ SchemaResolved => (embeddedRead /\ schemaLoader = "embedded")
         /\ err = SchemaReadError =>
              /\ embeddedRead
              /\ schemaLoader = "nil"
              /\ valid = FALSE
              /\ attempts = 0
              /\ jsonSbomSchema = "nil"
              /\ ~evaluated

C12_Witness ==
    /\ ValidateReturned
    /\ flags.ForcedJsonSchemaFile # ""
    /\ schemaLoader = "forced"
    /\ evaluated
    /\ ~embeddedRead

C12_WitnessReadFailure ==
    /\ ValidateReturned
    /\ flags.ForcedJsonSchemaFile = ""
    /\ err = SchemaReadError

\* C13: when custom validation ran, every failure in it is returned by
\* Validate as an InvalidSBOMError with valid = false, and the command exits
\* with ERROR_VALIDATION.
C13_CustomFailuresAreInvalidSBOMErrors ==
    (ValidateReturned /\ customRan /\ err # NoError) =>
        /\ IsInvalidSBOMError(err)
        /\ valid = FALSE
        /\ pc = "exited" => exitCode = ERROR_VALIDATION

\* C14: when custom validation is requested and the loaded document is not
\* CycloneDX, Validate returns an UnsupportedFormatError with valid = false
\* and empty schemaErrors, before any schema is read, compiled or evaluated
\* and without report output.
C14_CustomNeedsCycloneDX ==
    (/\ flags.CustomValidation
     /\ document.loaded = "ok"
     /\ ~IsCycloneDx(document)
     /\ pc # "v_custom_check") =>
        /\ pc \in {"v_deferred", "cmd_result", "exited"}
        /\ err = UnsupportedFormatError
        /\ valid = FALSE
        /\ schemaErrors = <<>>
        /\ schemaLoader = "nil"
        /\ ~embeddedRead
        /\ attempts = 0
        /\ ~evaluated
        /\ ~customRan
        /\ output = <<>>

C14_Witness ==
    /\ ValidateReturned
    /\ flags.CustomValidation
    /\ document = [loaded |-> "ok", format |-> SPDX]
    /\ err = UnsupportedFormatError

\* C16: on every return path of Validate, valid = true comes only with a nil
\* error and an empty schemaErrors, and every non-nil error comes with
\* valid = false (validationError never sees an error with a valid SBOM).
C16_ValidityAndErrorAgree ==
    (pc \in {"v_deferred", "cmd_result"} \/ ValidateReturned) =>
        /\ valid = TRUE => (err = NoError /\ schemaErrors = <<>>)
        /\ err # NoError => valid = FALSE
        /\ \A i \in 1..Len(log) : ~(log[i].valid /\ log[i].error # NoError)

C16_Witness ==
    /\ ValidateReturned
    /\ customRan
    /\ valid = TRUE
    /\ err = NoError

C16_WitnessError ==
    /\ ValidateReturned
    /\ customRan
    /\ valid = FALSE
    /\ err = UnmarshalTypeError
    /\ Len(log) = 1




(***************************************************************************)
(* Strings as byte sequences                                               *)
(***************************************************************************)
\* Go's `<` on strings: byte-wise lexicographic order.
RECURSIVE StrLess(_, _)
StrLess(a, b) ==
    IF b = <<>> THEN FALSE
    ELSE IF a = <<>> THEN TRUE
    ELSE IF Head(a) # Head(b) THEN Head(a) < Head(b)
    ELSE StrLess(Tail(a), Tail(b))

(***************************************************************************)
(* The resource command                                                    *)
(***************************************************************************)
\* schema.RESOURCE_TYPE_COMPONENT, schema.RESOURCE_TYPE_SERVICE: the strings
\* "component" and "service"
RESOURCE_TYPE_COMPONENT == <<99, 111, 109, 112, 111, 110, 101, 110, 116>>
RESOURCE_TYPE_SERVICE == <<115, 101, 114, 118, 105, 99, 101>>
RESOURCE_TYPE_DEFAULT == <<>>

\* Resource names of the documents considered: "B", "a", "b"
ResourceNames == {<<66>>, <<97>>, <<98>>}

MSG_OUTPUT_NO_RESOURCES_FOUND == "[WARN] no matching resources found for query"

RESOURCE_LIST_TITLES == <<"type", "name", "version", "bom-ref">>

NoResourcesError == "errors.errorString: " \o MSG_OUTPUT_NO_RESOURCES_FOUND
InvalidResourceTypeError == "invalid resource type"
UnmarshalBOMError == "UnmarshalCycloneDXBOM error"

ResourceFlagSets ==
    [OutputFormat : {FORMAT_TEXT, FORMAT_CSV, FORMAT_MARKDOWN, FORMAT_OTHER},
     OutputFile : {"", "out.txt"},
     ResourceType : {RESOURCE_TYPE_DEFAULT, RESOURCE_TYPE_COMPONENT,
                     RESOURCE_TYPE_SERVICE, <<120>>}]

\* schema.IsValidResourceType
IsValidResourceType(t) ==
    t \in {RESOURCE_TYPE_DEFAULT, RESOURCE_TYPE_COMPONENT, RESOURCE_TYPE_SERVICE}

\* The CDXResourceInfo values HashComponentResources / HashServiceResources
\* can insert for a --type value.
ResourceInfos(resourceType) ==
    [Type : (IF resourceType \in {RESOURCE_TYPE_DEFAULT, RESOURCE_TYPE_COMPONENT}
             THEN {RESOURCE_TYPE_COMPONENT} ELSE {})
            \cup
            (IF resourceType \in {RESOURCE_TYPE_DEFAULT, RESOURCE_TYPE_SERVICE}
             THEN {RESOURCE_TYPE_SERVICE} ELSE {}),
     Name : ResourceNames,
     Version : {"1.0"},
     BOMRef : {"ref-1", "ref-2"}]

EntryLists(resourceType) ==
    UNION {[1..n -> ResourceInfos(resourceType)] : n \in 0..MaxEntries}

InitResource ==
    /\ pc = "r_start"
    /\ flags \in ResourceFlagSets
    /\ InitCommand
    /\ IdleResource
    /\ IdleMarshal

\* resourceCmdImpl: createOutputFile; its error is overwritten further down
\* and the command goes on either way.
ResourceCreateOutputFile ==
    /\ pc = "r_start"
    /\ \E ok \in BOOLEAN :
         outputFile' = IF ok /\ flags.OutputFile # "" THEN "open" ELSE "nil"
    /\ pc' = "r_flags"
    /\ UNCHANGED <<flags, exitCode, valid, err, schemaErrors, document,
                   schemaLoader, embeddedRead, attempts, jsonSbomSchema, evaluated, result,
                   customRan, output, log, resourceVars, marshalVars>>

\* resourceCmdImpl: processWhereFlag, retrieveResourceType; ListResources is
\* called when the resource type is valid.
ResourceFlags ==
    /\ pc = "r_flags"
    /\ IF IsValidResourceType(flags.ResourceType)
       THEN /\ pc' = "r_load"
            /\ err' = NoError
       ELSE /\ pc' = "r_return"
            /\ err' = InvalidResourceTypeError
    /\ UNCHANGED <<flags, outputFile, exitCode, valid, schemaErrors, document,
                   schemaLoader, embeddedRead, attempts, jsonSbomSchema, evaluated, result,
                   customRan, output, log, resourceVars, marshalVars>>

\* ListResources: LoadInputBOMFileAndDetectSchema and the return on its error.
ResourceLoadDocument ==
    /\ pc = "r_load"
    /\ \E outcome \in {"ok", SyntaxError, FileError} :
         IF outcome # "ok"
         THEN /\ document' = [loaded |-> outcome, format |-> "none"]
              /\ err' = outcome
              /\ pc' = "r_deferred"
         ELSE /\ \E f \in {CycloneDX, SPDX} :
                   document' = [loaded |-> outcome, format |-> f]
              /\ err' = err
              /\ pc' = "r_collect"
    /\ UNCHANGED <<flags, outputFile, exitCode, valid, schemaErrors,
                   schemaLoader, embeddedRead, attempts, jsonSbomSchema, evaluated, result,
                   customRan, output, log, resourceVars, marshalVars>>

\* ListResources: loadDocumentResources and the return on its error.  The
\* where-filters and the document decide which resources are collected: any
\* list of resources of the requested type(s), in any map order.
LoadDocumentResources ==
    /\ pc = "r_collect"
    /\ IF ~IsCycloneDx(document)
       THEN /\ err' = UnsupportedFormatError
            /\ pc' = "r_deferred"
            /\ entries' = entries
       ELSE \E unmarshalOk \in BOOLEAN :
              IF unmarshalOk
              THEN /\ entries' \in EntryLists(flags.ResourceType)
                   /\ err' = NoError
                   /\ pc' = "r_display"
              ELSE /\ entries' = entries
                   /\ err' = UnmarshalBOMError
                   /\ pc' = "r_deferred"
    /\ UNCHANGED <<flags, outputFile, exitCode, valid, schemaErrors, document,
                   schemaLoader, embeddedRead, attempts, jsonSbomSchema, evaluated, result,
                   customRan, output, log, displayErr, marshalVars>>

\* The `less` closure of the three formatters: by Type, then by Name.
LessByTypeOnly(resource1, resource2) ==
    StrLess(resource1.Type, resource2.Type)

Less(resource1, resource2) ==
    IF resource1.Type # resource2.Type
    THEN StrLess(resource1.Type, resource2.Type)
    ELSE StrLess(resource1.Name, resource2.Name)

\* sort.Slice(entries, less): some reordering of the slice that is sorted by
\* less.  The sort is not stable, so every such reordering is possible.
SortSlice(es) ==
    LET n == Len(es)
        perms == {p \in [1..n -> 1..n] : \A i, j \in 1..n : i # j => p[i] # p[j]}
        sorted(t) == \A i, j \in 1..n : i < j => ~Less(t[j], t[i])
    IN  {t \in {[i \in 1..n |-> es[p[i]]] : p \in perms} : sorted(t)}

Row(kind, cols) == [kind |-> kind, cols |-> cols]

DataRow(info) == Row("data", <<info.Type, info.Name, info.Version, info.BOMRef>>)

DataRows(sorted) == [i \in 1..Len(sorted) |-> DataRow(sorted[i])]

NoticeRow == Row("notice", <<MSG_OUTPUT_NO_RESOURCES_FOUND>>)

\* createTitleTextSeparators: one underline per title
Underlines(titles) == [i \in 1..Len(titles) |-> "----"]

\* createMarkdownColumnAlignment: one alignment marker per title
Alignments(titles) == [i \in 1..Len(titles) |-> ":--"]

\* DisplayResourceListText: the rows written and (it returns nothing) no error.
\* `sorted` is the outcome of its sort.Slice call.
DisplayResourceListText(es, sorted) ==
    [rows |-> <<Row("title", RESOURCE_LIST_TITLES),
                Row("underline", Underlines(RESOURCE_LIST_TITLES))>>
              \o (IF Len(es) = 0 THEN <<NoticeRow>> ELSE DataRows(sorted)),
     err |-> NoError]

\* DisplayResourceListCSV: the rows written and the error returned.  The
\* csv.Writer buffers the rows, and the writer under it takes them.
DisplayResourceListCSVNoError(es, sorted) ==
    [rows |-> <<Row("title", RESOURCE_LIST_TITLES)>>
              \o (IF Len(es) = 0 THEN <<NoticeRow>> ELSE DataRows(sorted)),
     err |-> NoError]

DisplayResourceListCSV(es, sorted) ==
    [rows |-> <<Row("title", RESOURCE_LIST_TITLES)>>
              \o (IF Len(es) = 0 THEN <<NoticeRow>> ELSE DataRows(sorted)),
     err |-> IF Len(es) = 0 THEN NoResourcesError ELSE NoError]

\* DisplayResourceListMarkdown: the rows written and the error returned.
DisplayResourceListMarkdown(es, sorted) ==
    [rows |-> <<Row("title", RESOURCE_LIST_TITLES),
                Row("alignment", Alignments(RESOURCE_LIST_TITLES))>>
              \o (IF Len(es) = 0 THEN <<NoticeRow>> ELSE DataRows(sorted)),
     err |-> IF Len(es) = 0 THEN NoResourcesError ELSE NoError]

\* ListResources: the `switch format` that picks the formatter.
Display(format, es, sorted) ==
    CASE format = FORMAT_TEXT -> DisplayResourceListText(es, sorted)
      [] format = FORMAT_CSV -> DisplayResourceListCSV(es, sorted)
      [] format = FORMAT_MARKDOWN -> DisplayResourceListMarkdown(es, sorted)
      [] OTHER -> DisplayResourceListText(es, sorted)

\* ListResources: call the formatter; what it returns is not assigned to err.
DisplayResources ==
    /\ pc = "r_display"
    /\ \E sorted \in SortSlice(entries) :
         LET d == Display(flags.OutputFormat, entries, sorted)
         IN  /\ output' = output \o d.rows
             /\ displayErr' = d.err
    /\ pc' = "r_deferred"
    /\ UNCHANGED <<flags, outputFile, exitCode, valid, err, schemaErrors,
                   document, schemaLoader, embeddedRead, attempts, jsonSbomSchema, evaluated,
                   result, customRan, log, entries, marshalVars>>

\* ListResources' deferred closure (processResourceListResults only logs the
\* error) and the return to resourceCmdImpl.
ListResourcesDeferred ==
    /\ pc = "r_deferred"
    /\ pc' = "r_return"
    /\ UNCHANGED <<flags, outputFile, exitCode, valid, err, schemaErrors,
                   document, schemaLoader, embeddedRead, attempts, jsonSbomSchema, evaluated,
                   result, customRan, output, log, resourceVars, marshalVars>>

\* resourceCmdImpl returns err; its deferred closure closes the output file.
ResourceCommandReturn ==
    /\ pc = "r_return"
    /\ outputFile' = CloseOutputFile(outputFile)
    /\ exitCode' = IF err = NoError THEN EXIT_OK ELSE "RunE error"
    /\ pc' = "exited"
    /\ UNCHANGED <<flags, valid, err, schemaErrors, document, schemaLoader,
                   embeddedRead, attempts, jsonSbomSchema, evaluated, result, customRan, output,
                   log, resourceVars, marshalVars>>

NextResource ==
    \/ ResourceCreateOutputFile
    \/ ResourceFlags
    \/ ResourceLoadDocument
    \/ LoadDocumentResources
    \/ DisplayResources
    \/ ListResourcesDeferred
    \/ ResourceCommandReturn

SpecResource == InitResource /\ [][NextResource]_vars

(***************************************************************************)
(* Properties of the report formatters (checked under SpecResource)        *)
(***************************************************************************)
\* The formatter has run.
Displayed == displayErr # "not called"

\* The rows a formatter writes before the notice or the data rows.
HeaderKinds(format) ==
    CASE format = FORMAT_CSV -> <<"title">>
      [] format = FORMAT_MARKDOWN -> <<"title", "alignment">>
      [] OTHER -> <<"title", "underline">>

RowKinds(rows) == [i \in 1..Len(rows) |-> rows[i].kind]

\* C5: for an empty resource collection every formatter writes its header
\* rows, then the single MSG_OUTPUT_NO_RESOURCES_FOUND notice, and no data row;
\* the text formatter reports no failure, the CSV and the Markdown formatter
\* return a non-nil error.
C5_EmptyCollectionNotice ==
    (Displayed /\ entries = <<>>) =>
        /\ RowKinds(output) = HeaderKinds(flags.OutputFormat) \o <<"notice">>
        /\ output[Len(output)].cols = <<MSG_OUTPUT_NO_RESOURCES_FOUND>>
        /\ flags.OutputFormat \in {FORMAT_CSV, FORMAT_MARKDOWN} <=> displayErr # NoError

C5_Witness ==
    /\ Displayed
    /\ entries = <<>>
    /\ flags.OutputFormat = FORMAT_CSV
    /\ displayErr = NoResourcesError

\* The data rows written, in order.
DataRowsOf(rows) == SelectSeq(rows, LAMBDA r : r.kind = "data")

\* (type, name) of row a is at most (type, name) of row b, byte-wise.
TypeNameAtMost(a, b) ==
    \/ StrLess(a.cols[1], b.cols[1])
    \/ a.cols[1] = b.cols[1] /\ (a.cols[2] = b.cols[2] \/ StrLess(a.cols[2], b.cols[2]))

\* Number of positions of sequence s that hold x.
Count(s, x) == Cardinality({i \in 1..Len(s) : s[i] = x})

\* C6: for a non-empty collection, in any insertion order, every formatter
\* writes exactly one data row per entry (and no notice), in ascending order
\* of type and, among equal types, of name.
C6_OneSortedRowPerEntry ==
    (Displayed /\ entries # <<>>) =>
        LET rows == DataRowsOf(output)
        IN  /\ Len(rows) = Len(entries)
            /\ RowKinds(output) = HeaderKinds(flags.OutputFormat)
                                    \o [i \in 1..Len(entries) |-> "data"]
            /\ \A i \in 1..Len(entries) :
                 Count(rows, DataRow(entries[i])) = Count(entries, entries[i])
            /\ \A i \in 1..(Len(rows) - 1) : TypeNameAtMost(rows[i], rows[i + 1])

\* the example: inserted as (service, "b"), (component, "a"), written as
\* component/a then service/b
C6_Witness ==
    /\ Displayed
    /\ Len(entries) = 2
    /\ entries[1].Type = RESOURCE_TYPE_SERVICE /\ entries[1].Name = <<98>>
    /\ entries[2].Type = RESOURCE_TYPE_COMPONENT /\ entries[2].Name = <<97>>
    /\ flags.OutputFormat = FORMAT_MARKDOWN
    /\ DataRowsOf(output) = <<DataRow(entries[2]), DataRow(entries[1])>>

\* ListResources has returned to resourceCmdImpl.
ListResourcesReturned == pc \in {"r_return", "exited"} /\ document.loaded # "no"

\* C15: when the document loads and its resources are collected without error
\* but the collection is empty, ListResources returns a non-nil error for the
\* CSV and the Markdown format and nil for text or an unrecognized format.
C15_EmptyResultReportedToCaller ==
    (ListResourcesReturned /\ Displayed /\ entries = <<>>) =>
        (err # NoError <=> flags.OutputFormat \in {FORMAT_CSV, FORMAT_MARKDOWN})


(***************************************************************************)
(* encoding/json on strings and maps, as json.Marshal and json.Unmarshal   *)
(* do it.  A JSON object is the sequence of its members in the order they  *)
(* are written; a string member holds the bytes between its quotes.        *)
(***************************************************************************)
Drop(s, n) == SubSeq(s, n + 1, Len(s))

IsContinuation(b) == b \in 128..191

\* utf8.DecodeRuneInString: the size of the well-formed UTF-8 sequence at the
\* head of s, 0 when the head byte starts none.
RuneSize(s) ==
    LET b == s[1]
    IN  IF b < 128 THEN 1
        ELSE IF b \in 194..223 /\ Len(s) >= 2 /\ IsContinuation(s[2]) THEN 2
        ELSE IF /\ b \in 224..239
                /\ Len(s) >= 3
                /\ IsContinuation(s[2])
                /\ IsContinuation(s[3])
                /\ (b = 224 => s[2] >= 160)
                /\ (b = 237 => s[2] <= 159) THEN 3
        ELSE IF /\ b \in 240..244
                /\ Len(s) >= 4
                /\ IsContinuation(s[2])
                /\ IsContinuation(s[3])
                /\ IsContinuation(s[4])
                /\ (b = 240 => s[2] >= 144)
                /\ (b = 244 => s[2] <= 143) THEN 4
        ELSE 0

\* the digit of "0123456789abcdef"
Hex(d) == IF d < 10 THEN 48 + d ELSE 87 + d

HexVal(c) ==
    IF c \in 48..57 THEN c - 48 ELSE IF c \in 97..102 THEN c - 87 ELSE c - 55

\* the escape \uXXXX of a code point
EscapeU(cp) ==
    <<92, 117, Hex(cp \div 4096), Hex((cp \div 256) % 16), Hex((cp \div 16) % 16),
      Hex(cp % 16)>>

\* the UTF-8 bytes of a code point of the basic plane
UTF8(cp) ==
    IF cp < 128 THEN <<cp>>
    ELSE IF cp < 2048 THEN <<192 + (cp \div 64), 128 + (cp % 64)>>
    ELSE <<224 + (cp \div 4096), 128 + ((cp \div 64) % 64), 128 + (cp % 64)>>

\* json.Marshal of one byte below utf8.RuneSelf (HTML escaping is on)
EncodeASCII(b) ==
    IF b \in {34, 92} THEN <<92, b>>
    ELSE IF b = 10 THEN <<92, 110>>
    ELSE IF b = 13 THEN <<92, 114>>
    ELSE IF b = 9 THEN <<92, 116>>
    ELSE IF b < 32 \/ b \in {38, 60, 62} THEN EscapeU(b)
    ELSE <<b>>

\* json.Marshal of a string: the bytes between the quotes.  A byte that
\* starts no well-formed UTF-8 sequence is written as �.
RECURSIVE EncodeString(_)
EncodeString(s) ==
    IF s = <<>> THEN <<>>
    ELSE LET size == RuneSize(s)
         IN  IF s[1] < 128 THEN EncodeASCII(s[1]) \o EncodeString(Tail(s))
             ELSE IF size = 0 THEN EscapeU(65533) \o EncodeString(Tail(s))
             ELSE IF size = 3 /\ s[1] = 226 /\ s[2] = 128 /\ s[3] \in {168, 169}
                  THEN EscapeU(8192 + (s[3] - 128)) \o EncodeString(Drop(s, 3))
             ELSE SubSeq(s, 1, size) \o EncodeString(Drop(s, size))

\* json.Unmarshal of a string: from the bytes between the quotes
RECURSIVE DecodeString(_)
DecodeString(t) ==
    IF t = <<>> THEN <<>>
    ELSE IF t[1] = 92
    THEN IF t[2] = 117
         THEN UTF8(4096 * HexVal(t[3]) + 256 * HexVal(t[4]) + 16 * HexVal(t[5])
                   + HexVal(t[6])) \o DecodeString(Drop(t, 6))
         ELSE <<CASE t[2] = 98 -> 8
                  [] t[2] = 102 -> 12
                  [] t[2] = 110 -> 10
                  [] t[2] = 114 -> 13
                  [] t[2] = 116 -> 9
                  [] OTHER -> t[2]>> \o DecodeString(Drop(t, 2))
    ELSE LET size == RuneSize(t)
         IN  IF size = 0 THEN UTF8(65533) \o DecodeString(Tail(t))
             ELSE SubSeq(t, 1, size) \o DecodeString(Drop(t, size))

\* An entry of a map[string]interface{}: a string, or a nested map.
StringEntry(key, s) == [key |-> key, kind |-> "string", str |-> s, obj |-> {}]

ObjectEntry(key, m) == [key |-> key, kind |-> "object", str |-> <<>>, obj |-> m]

\* json.Marshal of a map[string]interface{}, were it to write the members by
\* descending key
RECURSIVE MarshalMapDescending(_)
MarshalMapDescending(temp) ==
    IF temp = {} THEN <<>>
    ELSE LET e == CHOOSE x \in temp : \A y \in temp \ {x} : StrLess(y.key, x.key)
         IN  <<[key |-> e.key,
                kind |-> e.kind,
                str |-> EncodeString(e.str),
                obj |-> IF e.kind = "object" THEN MarshalMapDescending(e.obj)
                                             ELSE <<>>]>>
             \o MarshalMapDescending(temp \ {e})

\* json.Marshal of a map[string]interface{}: the members by ascending key
\* (byte-wise), strings encoded, nested maps marshaled the same way.
RECURSIVE MarshalMap(_)
MarshalMap(temp) ==
    IF temp = {} THEN <<>>
    ELSE LET e == CHOOSE x \in temp : \A y \in temp \ {x} : StrLess(x.key, y.key)
         IN  <<[key |-> e.key,
                kind |-> e.kind,
                str |-> EncodeString(e.str),
                obj |-> IF e.kind = "object" THEN MarshalMap(e.obj) ELSE <<>>]>>
             \o MarshalMap(temp \ {e})

\* json.Unmarshal of a JSON object into a map[string]interface{}
RECURSIVE UnmarshalMap(_)
UnmarshalMap(object) ==
    {[key |-> object[i].key,
      kind |-> object[i].kind,
      str |-> DecodeString(object[i].str),
      obj |-> IF object[i].kind = "object" THEN UnmarshalMap(object[i].obj) ELSE {}]
       : i \in 1..Len(object)}

(***************************************************************************)
(* The custom marshalers                                                   *)
(***************************************************************************)
\* the JSON keys "expression", "license", "id", "name", "url", "text",
\* "contentType", "encoding", "content"
KEY_EXPRESSION == <<101, 120, 112, 114, 101, 115, 115, 105, 111, 110>>
KEY_LICENSE == <<108, 105, 99, 101, 110, 115, 101>>
KEY_ID == <<105, 100>>
KEY_NAME == <<110, 97, 109, 101>>
KEY_URL == <<117, 114, 108>>
KEY_TEXT == <<116, 101, 120, 116>>
KEY_CONTENT_TYPE == <<99, 111, 110, 116, 101, 110, 116, 84, 121, 112, 101>>
KEY_ENCODING == <<101, 110, 99, 111, 100, 105, 110, 103>>
KEY_CONTENT == <<99, 111, 110, 116, 101, 110, 116>>

\* `if value.F != "" { temp[key] = value.F }`
NonEmptyEntry(key, s) == IF s # <<>> THEN {StringEntry(key, s)} ELSE {}

\* CDXAttachment.MarshalJSON: the map it builds
AttachmentTempEncodingAlways(value) ==
    NonEmptyEntry(KEY_CONTENT_TYPE, value.ContentType)
    \cup {StringEntry(KEY_ENCODING, value.Encoding)}
    \cup NonEmptyEntry(KEY_CONTENT, value.Content)

AttachmentTemp(value) ==
    NonEmptyEntry(KEY_CONTENT_TYPE, value.ContentType)
    \cup NonEmptyEntry(KEY_ENCODING, value.Encoding)
    \cup NonEmptyEntry(KEY_CONTENT, value.Content)

\* CDXAttachment.MarshalJSON
AttachmentMarshalJSON(value) ==
    [bytes |-> MarshalMap(AttachmentTemp(value)), err |-> NoError]

\* The nested struct of CDXLicense and CDXLicenseChoice: json.Marshal of the
\* child, json.Unmarshal of its bytes into a map, and the map stored under key.
\* An error of either call is returned without bytes.
NestedEntry(key, child) ==
    IF child.err # NoError THEN [entry |-> {}, err |-> child.err]
    ELSE [entry |-> {ObjectEntry(key, UnmarshalMap(child.bytes))}, err |-> NoError]

\* CDXLicense.MarshalJSON
LicenseMarshalJSON(value) ==
    LET temp == NonEmptyEntry(KEY_ID, value.Id)
                \cup NonEmptyEntry(KEY_NAME, value.Name)
                \cup NonEmptyEntry(KEY_URL, value.Url)
        text == IF value.Text # ZeroAttachment
                THEN NestedEntry(KEY_TEXT, AttachmentMarshalJSON(value.Text))
                ELSE [entry |-> {}, err |-> NoError]
    IN  IF text.err # NoError THEN [bytes |-> <<>>, err |-> text.err]
        ELSE [bytes |-> MarshalMap(temp \cup text.entry), err |-> NoError]

\* CDXLicenseChoice.MarshalJSON: `if value.License != (CDXLicense{})`
LicenseIsSetAlways(license) == TRUE

LicenseIsSet(license) == license # ZeroLicense

\* CDXLicenseChoice.MarshalJSON
LicenseChoiceMarshalJSON(value) ==
    LET temp == NonEmptyEntry(KEY_EXPRESSION, value.Expression)
        license == IF LicenseIsSet(value.License)
                   THEN NestedEntry(KEY_LICENSE, LicenseMarshalJSON(value.License))
                   ELSE [entry |-> {}, err |-> NoError]
    IN  IF license.err # NoError THEN [bytes |-> <<>>, err |-> license.err]
        ELSE [bytes |-> MarshalMap(temp \cup license.entry), err |-> NoError]

\* The string member of a JSON object whose key matches a struct field, decoded;
\* the field keeps its zero value when the object has no such member.
FieldOf(object, key) ==
    LET m == UnmarshalMap(object)
    IN  IF \E e \in m : e.key = key
        THEN (CHOOSE e \in m : e.key = key).str
        ELSE <<>>

\* json.Unmarshal of a JSON object into a CDXAttachment
UnmarshalAttachment(object) ==
    [ContentType |-> FieldOf(object, KEY_CONTENT_TYPE),
     Encoding |-> FieldOf(object, KEY_ENCODING),
     Content |-> FieldOf(object, KEY_CONTENT)]

\* Input strings: up to MaxStrLen bytes out of `a`, `"`, `<` and 0xFF (a byte
\* that is no UTF-8).
Alphabet == {97, 34, 60, 255}

Strings == UNION {[1..n -> Alphabet] : n \in 0..MaxStrLen}

ShortStrings == {<<>>, <<97>>, <<60>>}

Attachments == [ContentType : Strings, Encoding : Strings, Content : Strings]

ShortAttachments ==
    [ContentType : ShortStrings, Encoding : ShortStrings, Content : ShortStrings]

LicenseChoices ==
    [License : [Id : ShortStrings, Name : {<<>>, <<97>>}, Url : {<<>>, <<97>>},
                Text : ShortAttachments],
     Expression : Strings]

InitMarshal ==
    /\ pc = "m_input"
    /\ flags = [OutputFormat |-> "", OutputFile |-> ""]
    /\ InitCommand
    /\ IdleResource
    /\ \/ attachment \in Attachments /\ choice = ZeroLicenseChoice
       \/ attachment = ZeroAttachment /\ choice \in LicenseChoices
    /\ marshaled = [bytes |-> <<>>, err |-> NoError]
    /\ parsed = ZeroAttachment

\* json.Marshal(&attachment)
MarshalAttachment ==
    /\ pc = "m_input"
    /\ marshaled' = AttachmentMarshalJSON(attachment)
    /\ pc' = "m_attachment"
    /\ UNCHANGED <<flags, outputFile, exitCode, valid, err, schemaErrors,
                   document, schemaLoader, embeddedRead, attempts, jsonSbomSchema, evaluated,
                   result, customRan, output, log, resourceVars, choice,
                   attachment, parsed>>

\* json.Unmarshal of the marshaled attachment into a fresh CDXAttachment
ParseAttachment ==
    /\ pc = "m_attachment"
    /\ marshaled.err = NoError
    /\ parsed' = UnmarshalAttachment(marshaled.bytes)
    /\ pc' = "m_parsed"
    /\ UNCHANGED <<flags, outputFile, exitCode, valid, err, schemaErrors,
                   document, schemaLoader, embeddedRead, attempts, jsonSbomSchema, evaluated,
                   result, customRan, output, log, resourceVars, choice,
                   attachment, marshaled>>

\* json.Marshal(&choice.License)
MarshalLicense ==
    /\ pc = "m_input"
    /\ marshaled' = LicenseMarshalJSON(choice.License)
    /\ pc' = "m_license"
    /\ UNCHANGED <<flags, outputFile, exitCode, valid, err, schemaErrors,
                   document, schemaLoader, embeddedRead, attempts, jsonSbomSchema, evaluated,
                   result, customRan, output, log, resourceVars, choice,
                   attachment, parsed>>

\* json.Marshal(&choice)
MarshalLicenseChoice ==
    /\ pc = "m_input"
    /\ marshaled' = LicenseChoiceMarshalJSON(choice)
    /\ pc' = "m_choice"
    /\ UNCHANGED <<flags, outputFile, exitCode, valid, err, schemaErrors,
                   document, schemaLoader, embeddedRead, attempts, jsonSbomSchema, evaluated,
                   result, customRan, output, log, resourceVars, choice,
                   attachment, parsed>>

NextMarshal ==
    \/ MarshalAttachment
    \/ ParseAttachment
    \/ MarshalLicense
    \/ MarshalLicenseChoice

SpecMarshal == InitMarshal /\ [][NextMarshal]_vars

(***************************************************************************)
(* Properties of the marshalers (checked under SpecMarshal)                *)
(***************************************************************************)
\* The keys of a JSON object.
Keys(object) == {object[i].key : i \in 1..Len(object)}

\* s is well-formed UTF-8.
RECURSIVE IsValidUTF8(_)
IsValidUTF8(s) ==
    \/ s = <<>>
    \/ RuneSize(s) > 0 /\ IsValidUTF8(Drop(s, RuneSize(s)))

AttachmentFields == {"ContentType", "Encoding", "Content"}

\* The JSON key of a CDXAttachment field.
AttachmentKey(field) ==
    CASE field = "ContentType" -> KEY_CONTENT_TYPE
      [] field = "Encoding" -> KEY_ENCODING
      [] field = "Content" -> KEY_CONTENT

Populated(a) == {f \in AttachmentFields : a[f] # <<>>}

\* the object of a marshaled attachment holds a field's key exactly when the
\* field is a non-empty string, and no other key
AttachmentKeysAreThePopulatedFields ==
    /\ marshaled.err = NoError
    /\ Keys(marshaled.bytes) = {AttachmentKey(f) : f \in Populated(attachment)}
    /\ Len(marshaled.bytes) = Cardinality(Populated(attachment))

\* C8, as claimed: the marshaled attachment holds exactly the keys of the
\* non-empty fields, and parsing it back gives the attachment, value for value.
C8_RoundTripIsIdentity ==
    (pc = "m_parsed") =>
        /\ AttachmentKeysAreThePopulatedFields
        /\ parsed = attachment

\* C8, amended: the marshaled attachment holds exactly the keys of the
\* non-empty fields; parsing it back gives an attachment with the same set of
\* populated fields, and with the same value in every field whose value is
\* well-formed UTF-8.
C8_RoundTripKeepsPopulatedFields ==
    /\ (pc \in {"m_attachment", "m_parsed"}) => AttachmentKeysAreThePopulatedFields
    /\ (pc = "m_parsed") =>
          /\ Populated(parsed) = Populated(attachment)
          /\ \A f \in AttachmentFields :
               IsValidUTF8(attachment[f]) => parsed[f] = attachment[f]

C8_Witness ==
    /\ pc = "m_parsed"
    /\ attachment.ContentType = <<97, 34>>
    /\ attachment.Encoding = <<>>
    /\ attachment.Content = <<255>>
    /\ parsed.ContentType = <<97, 34>>
    /\ parsed.Content # attachment.Content
    /\ Populated(parsed) = {"ContentType", "Content"}

\* C9: the object of a marshaled CDXLicenseChoice never holds both the key
\* "expression" and the key "license", and it holds neither only when
\* Expression is empty and License is the zero value.
C9_NeverBothBranches ==
    (pc = "m_choice") =>
        /\ ~(KEY_EXPRESSION \in Keys(marshaled.bytes)
             /\ KEY_LICENSE \in Keys(marshaled.bytes))
        /\ (KEY_EXPRESSION \notin Keys(marshaled.bytes)
            /\ KEY_LICENSE \notin Keys(marshaled.bytes))
              => (choice.Expression = <<>> /\ choice.License = ZeroLicense)

\* The keys of a JSON object, in the order they are written.
KeySeq(object) == [i \in 1..Len(object) |-> object[i].key]

\* The keys of `order` that occur in `keys`, in the order of `order`.
Restrict(order, keys) == SelectSeq(order, LAMBDA k : k \in keys)

\* The object under key `key` of a JSON object, the empty object without one.
ObjectAt(object, key) ==
    IF \E i \in 1..Len(object) : object[i].key = key
    THEN object[CHOOSE i \in 1..Len(object) : object[i].key = key].obj
    ELSE <<>>

\* the order in which CDXLicense.MarshalJSON / CDXAttachment.MarshalJSON check
\* the fields
LicenseCheckOrder == <<KEY_ID, KEY_NAME, KEY_URL, KEY_TEXT>>
AttachmentCheckOrder == <<KEY_CONTENT_TYPE, KEY_ENCODING, KEY_CONTENT>>

\* the keys in ascending byte order
LicenseSortedOrder == <<KEY_ID, KEY_NAME, KEY_TEXT, KEY_URL>>
AttachmentSortedOrder == <<KEY_CONTENT, KEY_CONTENT_TYPE, KEY_ENCODING>>

\* the written keys follow `licenseOrder` in a marshaled License and
\* `attachmentOrder` in a marshaled Attachment, nested or not
KeysWrittenInOrder(licenseOrder, attachmentOrder) ==
    /\ pc = "m_license" =>
         /\ KeySeq(marshaled.bytes) = Restrict(licenseOrder, Keys(marshaled.bytes))
         /\ LET text == ObjectAt(marshaled.bytes, KEY_TEXT)
            IN  KeySeq(text) = Restrict(attachmentOrder, Keys(text))
    /\ pc = "m_attachment" =>
         KeySeq(marshaled.bytes) = Restrict(attachmentOrder, Keys(marshaled.bytes))

\* C17, as claimed: the keys of a marshaled License or Attachment are written
\* in the order in which the marshaler checks the fields: id, name, url, text
\* and contentType, encoding, content.
C17_KeysInCheckOrder == KeysWrittenInOrder(LicenseCheckOrder, AttachmentCheckOrder)

\* C17, amended: the keys of a marshaled License or Attachment are written in
\* ascending byte order of the key, whatever the order of the checks: id,
\* name, text, url and content, contentType, encoding.
C17_KeysInSortedOrder ==
    /\ KeysWrittenInOrder(LicenseSortedOrder, AttachmentSortedOrder)
    /\ pc \in {"m_license", "m_attachment"} =>
         \A i \in 1..(Len(marshaled.bytes) - 1) :
            StrLess(marshaled.bytes[i].key, marshaled.bytes[i + 1].key)

C17_Witness ==
    /\ pc = "m_license"
    /\ KeySeq(marshaled.bytes) = LicenseSortedOrder
    /\ KeySeq(ObjectAt(marshaled.bytes, KEY_TEXT)) = AttachmentSortedOrder

====
